---------------------------- MODULE Spec2Model ----------------------------
(***************************************************************************)
(* Self-healing selector engine (utils/selectors/self-healing.ts):         *)
(* SelfHealingSelector.findElement / healSelector / clearCache and the     *)
(* selector cache with its persisted file .selector-cache.json.            *)
(*                                                                         *)
(* A selector is a sequence of one-character strings.  The live document   *)
(* is the set of selectors that currently resolve.  Every `await` of the   *)
(* source is one step of a call; the synchronous code between two awaits   *)
(* belongs to the step that precedes it.                                   *)
(***************************************************************************)
EXTENDS Integers, Sequences, FiniteSets, TLC

(* ------------------------------ bounds -------------------------------- *)
\* the clock is explored up to MaxMinutes minutes
MaxMinutes == 90
\* failed writes of the cache file explored
MaxWriteFailures == 1

\* call slots of the shared instance; only slot 1 runs in Spec
Calls == {1, 2}

(* ----------------------- program constants ---------------------------- *)
\* "Cache valid for 1 hour": if (age < 3600000)
TTL == 3600000
\* confidence: 0.8, in tenths
CONFIDENCE_TENTHS == 8

(* ------------------------------ inputs -------------------------------- *)
SelA == <<"#", "a">>
SelB == <<"#", "b">>
SelC == <<"#", "c">>
\* selectors the document may or may not contain
PageSelectors == {SelA, SelB, SelC}
\* selectors callers pass to findElement
Primaries == {SelA}
\* keys the cache may hold: the callers' selectors and one a previous run healed
Keys == Primaries \cup {SelB}
NoDescription == "undefined"
Descriptions == {NoDescription, "submit button"}
\* clock advances in ms: 30 minutes, exactly one hour, 61 minutes
Minute == TTL \div 60
TickSteps == {30 * Minute, 60 * Minute, 61 * Minute}
\* raw texts the AI backend may answer with
AIResponses ==
  { SelB,
    <<" ", "\"", "#", "c", "\"", "\n">>,
    <<"'", "#", "b", "'">>,
    <<" ", "\"", "\"", " ">> }
\* values of process.env.ENABLE_SELF_HEALING
EnvValues == {"unset", "true", "false", "0"}

\* null / undefined where a selector is expected
None == <<"null">>

(* ------------------------- pure helpers ------------------------------- *)
IsSpace(ch) == ch \in {" ", "\n", "\t"}
IsQuote(ch) == ch \in {"\"", "'"}

RECURSIVE TrimStart(_)
TrimStart(s) ==
  IF s # <<>> /\ IsSpace(Head(s)) THEN TrimStart(Tail(s)) ELSE s

RECURSIVE TrimEnd(_)
TrimEnd(s) ==
  IF s # <<>> /\ IsSpace(s[Len(s)]) THEN TrimEnd(SubSeq(s, 1, Len(s) - 1)) ELSE s

\* String.prototype.trim
Trim(s) == TrimEnd(TrimStart(s))

\* .replace(/^["']|["']$/g, ''): one leading and one trailing quote character
StripQuotes(s) ==
  LET s1 == IF s # <<>> /\ IsQuote(Head(s)) THEN Tail(s) ELSE s
  IN  IF s1 # <<>> /\ IsQuote(s1[Len(s1)]) THEN SubSeq(s1, 1, Len(s1) - 1) ELSE s1

\* const selector = response.trim().replace(/^["']|["']$/g, '')
CleanResponse(response) == StripQuotes(Trim(response))

\* this.enabled = process.env.ENABLE_SELF_HEALING !== 'false'
EnabledFromEnv(e) == e # "false"

\* a cache entry { healedSelector, timestamp, confidence }
Entry(h, t, conf) == [healedSelector |-> h, timestamp |-> t, confidence |-> conf]

\* JSON.stringify(this.cache): the file's records, one per key that has an entry
Serialize(c) ==
  { <<k, c[k].healedSelector, c[k].timestamp, c[k].confidence>> : k \in DOMAIN c }

\* JSON.parse(data): back to a map from selector to entry
ParseCache(data) ==
  [k \in {r[1] : r \in data} |->
     LET r == CHOOSE r \in data : r[1] = k IN Entry(r[2], r[3], r[4])]

\* {}
EmptyCache == [k \in {} |-> None]
\* this.cache[k] is truthy
Has(c, k) == k \in DOMAIN c
AbsentFile == [exists |-> FALSE, data |-> {}]
FileOf(data) == [exists |-> TRUE, data |-> data]

\* content of a file that readFileSync or JSON.parse rejects
Unreadable == {<<"unreadable">>}
\* readFileSync and JSON.parse both succeed on the content
Parses(data) == data # Unreadable

\* variant: loadCache without its try/catch
LoadCacheThrows_NoCatch(f) == f.exists /\ ~Parses(f.data)

\* loadCache(): every error is caught, none leaves the constructor
LoadCacheThrows(f) == FALSE

\* loadCache(): read the file when it exists; catch { this.cache = {} }
LoadCache(f) == IF f.exists /\ Parses(f.data) THEN ParseCache(f.data) ELSE EmptyCache

\* files a previous run may have left behind
InitFiles ==
  { AbsentFile,
    FileOf({<<SelA, SelB, 0, CONFIDENCE_TENTHS>>}),
    FileOf({<<SelA, SelC, 0, CONFIDENCE_TENTHS>>, <<SelB, SelC, 0, CONFIDENCE_TENTHS>>}) }

(* --------------------- OTP extraction: inputs ------------------------- *)
\* bodies of the e-mails handed to extractOTP
Emails ==
  { <<"c", "o", "d", "e", " ", "1", "2", "3", "4", "5", "6", ".">>,
    <<"p", "i", "n", " ", "1", "2", "3", "4", " ", "o", "r", " ", "6", "5", "4", "3", "2", "1">>,
    <<"u", "s", "e", " ", "A", "B", "1", "2", "C", "D", " ", "n", "o", "w">>,
    <<"1", "2", "3", "-", "4", "5", "6">>,
    <<"n", "o", " ", "c", "o", "d", "e", " ", "h", "e", "r", "e">>,
    <<"r", "e", "f", " ", "1", "2", "3", "4", "5", " ", "x">>,
    <<"i", "d", " ", "x", "1", "2", "3", "4", "5", "6">>,
    <<"1", "2", "3", "4", "5", "6", "7", "8">> }
\* subjects: undefined, or one that holds digits of its own
Subjects == {None, <<"O", "T", "P", " ", "2", "0", "2", "4">>}
\* raw texts aiClient.ask may answer with
OtpResponses ==
  { <<" ", "4", "8", "2", "9", "1", "3", "\n">>,
    <<"N", "O", "T", "_", "F", "O", "U", "N", "D">>,
    <<"a", "b", "c">>,
    <<"a", "b", "-", "1", "2">>,
    <<"1", "2", "3", "4", "5", "6", "7", "8", "9", "0", "1">>,
    <<>> }

(* --------------------- OTP extraction: helpers ------------------------ *)
Digits == {"0", "1", "2", "3", "4", "5", "6", "7", "8", "9"}
Upper == {"A", "B", "C", "D", "E", "F", "G", "H", "I", "J", "K", "L", "M",
          "N", "O", "P", "Q", "R", "S", "T", "U", "V", "W", "X", "Y", "Z"}
Lower == {"a", "b", "c", "d", "e", "f", "g", "h", "i", "j", "k", "l", "m",
          "n", "o", "p", "q", "r", "s", "t", "u", "v", "w", "x", "y", "z"}
\* \w of a regular expression
IsWordChar(ch) == ch \in Digits \cup Upper \cup Lower \cup {"_"}
\* cls{n}
Rep(cls, n) == [i \in 1..n |-> cls]

\* const patterns = [...]: each is its character classes between two \b
OTPPatterns ==
  << Rep(Digits, 6), Rep(Digits, 4), Rep(Digits, 8),
     Rep(Upper \cup Digits, 6), Rep(Upper \cup Digits, 8),
     Rep(Digits, 3) \o <<{"-"}>> \o Rep(Digits, 3) >>

\* \b between positions i - 1 and i of text
WordAt(text, i) == i \in 1..Len(text) /\ IsWordChar(text[i])
Boundary(text, i) == WordAt(text, i - 1) # WordAt(text, i)
\* the pattern matches the text at position i
MatchesAt(p, text, i) ==
  /\ i >= 1 /\ i + Len(p) - 1 <= Len(text)
  /\ Boundary(text, i)
  /\ \A j \in 1..Len(p) : text[i + j - 1] \in p[j]
  /\ Boundary(text, i + Len(p))

\* allContent.match(pattern): the leftmost match, or null
RECURSIVE MatchFrom(_, _, _)
MatchFrom(p, text, i) ==
  IF i > Len(text) THEN None
  ELSE IF MatchesAt(p, text, i) THEN SubSeq(text, i, i + Len(p) - 1)
  ELSE MatchFrom(p, text, i + 1)

\* for (const pattern of patterns) { ... if (match) return match[0]; }
RECURSIVE TryPatterns(_, _)
TryPatterns(ps, text) ==
  IF ps = <<>> THEN None
  ELSE LET m == MatchFrom(Head(ps), text, 1)
       IN  IF m # None THEN m ELSE TryPatterns(Tail(ps), text)

\* const allContent = `${subject || ''} ${emailContent}`
AllContent(content, subj) == (IF subj = None THEN <<>> ELSE subj) \o <<" ">> \o content

OtpCode(code) == [kind |-> "code", code |-> code]
\* new Error('Could not extract OTP code using regex patterns')
OtpError == [kind |-> "error", code |-> None]
NoOtp == [kind |-> "none", code |-> None]

\* extractWithRegex(emailContent, subject)
ExtractWithRegex(content, subj) ==
  LET m == TryPatterns(OTPPatterns, AllContent(content, subj))
  IN  IF m = None THEN OtpError ELSE OtpCode(m)

\* isValidOTPCode(code)
IsValidOTPCode(code) ==
  /\ code # <<>>
  /\ Len(code) >= 4 /\ Len(code) <= 10
  /\ \A i \in 1..Len(code) : code[i] \in Upper \cup Lower \cup Digits \cup {"-"}

\* variant: the answer of the AI is returned unchecked
UseAICode_Unchecked(ok, code) == ok

\* extractWithAI returns its code: the call succeeded and the code is valid
UseAICode(ok, code) == ok /\ IsValidOTPCode(code)

\* "Regex-first with AI fallback": regex patterns first, the AI only when
\* none of them matches
FirstStage_RegexFirst(en, content, subj) ==
  IF ExtractWithRegex(content, subj).kind = "code" \/ ~en THEN "regex" ELSE "ai"

\* extractOTP: if (this.enableAI) try extractWithAI first
FirstStage(en, content, subj) == IF en THEN "ai" ELSE "regex"

(* ----------------------- e-mail polling: inputs ------------------------ *)
\* const maxWaitMs = options?.maxWaitMs || 30000
DEFAULT_MAX_WAIT == 30000
\* const pollIntervalMs = options?.pollIntervalMs || 2000
DEFAULT_POLL_INTERVAL == 2000
\* option values; 0 stands for undefined as well, both being falsy
MaxWaitOptions == {0, 2 * DEFAULT_POLL_INTERVAL}
PollIntervalOptions == {0, DEFAULT_MAX_WAIT \div 10}
\* filters; the empty string stands for undefined as well
SubjectFilters == {<<>>, <<"t", "p">>}
FromFilters == {<<>>, <<"@", "x">>}
Mail(subj, from) == [subject |-> subj, from |-> from]
\* e-mails that may be the latest one of the inbox
Mails ==
  { Mail(<<"o", "t", "p">>, <<"a", "@", "x">>),
    Mail(<<"h", "i">>, <<"a", "@", "x">>),
    Mail(<<"o", "t", "p">>, <<"b", "@", "y">>) }
PollOptions ==
  [maxWaitMs : MaxWaitOptions, pollIntervalMs : PollIntervalOptions,
   filterSubject : SubjectFilters, filterFrom : FromFilters]

(* ----------------------- e-mail polling: helpers ----------------------- *)
\* v || d
OrDefault(v, d) == IF v = 0 THEN d ELSE v
\* String.prototype.includes
Includes(text, sub) ==
  \E i \in 1..(Len(text) - Len(sub) + 1) : SubSeq(text, i, i + Len(sub) - 1) = sub

\* variant: the sender filter is not applied
PassesFilters_SubjectOnly(mail, o) ==
  ~(o.filterSubject # <<>> /\ ~Includes(mail.subject, o.filterSubject))

\* neither `continue` of the filter checks is taken
PassesFilters(mail, o) ==
  /\ ~(o.filterSubject # <<>> /\ ~Includes(mail.subject, o.filterSubject))
  /\ ~(o.filterFrom # <<>> /\ ~Includes(mail.from, o.filterFrom))

\* the loop condition Date.now() - startTime < maxWaitMs is false
TimedOut(el, o) == ~(el < OrDefault(o.maxWaitMs, DEFAULT_MAX_WAIT))

NoMail == Mail(<<>>, <<>>)
PollReturn(mail) == [kind |-> "email", mail |-> mail]
\* new Error(`No email received within ${maxWaitMs}ms timeout`)
PollTimeoutError == [kind |-> "timeout", mail |-> NoMail]
\* the error fetchAllEmails threw, passing through pollForEmail
FetchError == [kind |-> "fetchError", mail |-> NoMail]
NoPollResult == [kind |-> "none", mail |-> NoMail]

\* no store in another worker process
NoWorker == [alive |-> FALSE, cache |-> EmptyCache]

(* ------------------------------ state --------------------------------- *)
VARIABLES
  enabled,    \* this.enabled
  cache,      \* this.cache
  file,       \* contents of this.cacheFile
  live,       \* selectors that resolve in the live document
  now,        \* Date.now()
  writeFailures, \* failed writeFileSync calls so far
  pc,         \* per call: the await it is suspended at
  selector,   \* per call: findElement's selector argument
  description,\* per call: findElement's description argument
  cand,       \* per call: the selector being replayed or validated
  log,        \* per call: what the call has done so far
  result,     \* per call: what the call returned or threw
  instance,   \* the store in use: the first one, or one constructed later
  enableAI,   \* OTPExtractor.enableAI
  otpPc,      \* extractOTP: the await it is suspended at
  emailContent, \* extractOTP's emailContent argument
  subject,    \* extractOTP's subject argument
  aiAnswer,   \* what aiClient.ask returned or threw in this extraction
  aiCalls,    \* calls of aiClient.ask made by this extraction
  otpResult,  \* what extractOTP returned or threw
  worker,     \* the store of another worker process on the same cache file
  pollPc,     \* pollForEmail: where it is suspended
  pollOptions,\* pollForEmail's options argument
  elapsed,    \* Date.now() - startTime
  inbox,      \* what fetchAllEmails(1) returns: the latest e-mail, if any
  pollResult  \* what pollForEmail returned or threw

otpVars == <<enableAI, otpPc, emailContent, subject, aiAnswer, aiCalls, otpResult>>
pollVars == <<pollPc, pollOptions, elapsed, inbox, pollResult>>
\* what findElement and clearCache of the store in use never touch
otherVars == <<otpVars, pollVars, worker>>

vars == <<enabled, cache, file, live, now, writeFailures, pc, selector, description,
          cand, log, result, instance, otpVars, pollVars, worker>>

envVars == <<live, now, writeFailures>>
callVars == <<pc, selector, description, cand, log, result>>

Ev(op, arg, ok) == [op |-> op, arg |-> arg, ok |-> ok]
Locator(s) == [kind |-> "locator", selector |-> s]
\* variant: the message does not interpolate the selector
HealError_NoSelector(s) == [kind |-> "error", selector |-> None]

\* new Error(`Could not find or heal selector: ${selector}`)
HealError(s) == [kind |-> "error", selector |-> s]
NoResult == [kind |-> "none", selector |-> None]
\* an exception other than the Error above leaving findElement
RawException == [kind |-> "exception", selector |-> None]
\* an exception leaving healSelector, raised by backend operation op
Thrown(op) == <<"throw", op>>
IsThrown(h) == Len(h) = 2 /\ h[1] = "throw"

Resolves(s) == s \in live

\* no extraction has been asked for
OtpIdle ==
  /\ otpPc = "idle"
  /\ emailContent = <<>>
  /\ subject = None
  /\ aiAnswer = None
  /\ aiCalls = 0
  /\ otpResult = NoOtp

\* no polling has been asked for
PollIdle ==
  /\ pollPc = "idle"
  /\ pollOptions = [maxWaitMs |-> 0, pollIntervalMs |-> 0,
                    filterSubject |-> <<>>, filterFrom |-> <<>>]
  /\ elapsed = 0
  /\ inbox = <<>>
  /\ pollResult = NoPollResult

Init ==
  /\ instance = "first"
  /\ enableAI = TRUE
  /\ OtpIdle
  /\ PollIdle
  /\ worker = NoWorker
  /\ enabled \in {EnabledFromEnv(e) : e \in EnvValues}
  /\ file \in InitFiles
  /\ cache = LoadCache(file)
  /\ live \in SUBSET PageSelectors
  /\ now = 0
  /\ writeFailures = 0
  /\ pc = [c \in Calls |-> "idle"]
  /\ selector = [c \in Calls |-> None]
  /\ description = [c \in Calls |-> NoDescription]
  /\ cand = [c \in Calls |-> None]
  /\ log = [c \in Calls |-> <<>>]
  /\ result = [c \in Calls |-> NoResult]

(* ------------------- decisions taken by the code ---------------------- *)
\* variant: an entry exactly one hour old still counts as valid
CacheFresh_Inclusive(entry, t) == t - entry.timestamp <= TTL

\* const age = Date.now() - cached.timestamp; if (age < 3600000)
CacheFresh(entry, t) == t - entry.timestamp < TTL

\* variant: the cache is never consulted, repair follows any primary failure
AfterPrimary_SkipCache(ok, c, k, t) == IF ok THEN "done" ELSE "screenshot"

\* variant: the cache is consulted before the primary lookup is honoured
AfterPrimary_CacheFirst(ok, c, k, t) ==
  IF Has(c, k) /\ CacheFresh(c[k], t) THEN "replay"
  ELSE IF ok THEN "done"
  ELSE "screenshot"

\* where findElement goes after the primary waitFor settled
AfterPrimary(ok, c, k, t) ==
  IF ok THEN "done"
  ELSE IF Has(c, k) /\ CacheFresh(c[k], t) THEN "replay"
  ELSE "screenshot"

\* variant: a failed replay is tried again
AfterReplay_Retry(ok) == IF ok THEN "done" ELSE "replay"

\* variant: a failed replay ends the call instead of falling through to repair
AfterReplay_ShortCircuit(ok) == "done"

\* variant: a successful replay does not return and repair runs anyway
AfterReplay_AlwaysHeal(ok) == "screenshot"

\* where findElement goes after the replayed waitFor settled
AfterReplay(ok) == IF ok THEN "done" ELSE "screenshot"

\* variant: a failed replay empties the whole map
DeleteStale_All(c, k) == EmptyCache

\* variant: the stale entry is not deleted
DeleteStale_Keep(c, k) == c

\* catch { delete this.cache[selector]; }
DeleteStale(c, k) == [x \in DOMAIN c \ {k} |-> c[x]]

\* variant: the candidate is returned without regard to the validation
HealSelectorReturn_NoValidation(s, valid) == s

\* healSelector's validation: return selector on success, null on timeout
HealSelectorReturn(s, valid) == IF valid THEN s ELSE None

\* variant: the result of healSelector is used without the null check
Truthy_Always(healed) == TRUE

\* if (healedSelector): null and the empty string are falsy
Truthy(healed) == healed # None /\ healed # <<>>

\* variant: an entry that is already there is not overwritten
UpdateCache_KeepExisting(c, k, h, t) ==
  [x \in DOMAIN c \cup {k} |->
     IF x = k /\ ~Has(c, k) THEN Entry(h, t, CONFIDENCE_TENTHS) ELSE c[x]]

\* this.cache[selector] = { healedSelector, timestamp: Date.now(), confidence: 0.8 }
UpdateCache(c, k, h, t) ==
  [x \in DOMAIN c \cup {k} |-> IF x = k THEN Entry(h, t, CONFIDENCE_TENTHS) ELSE c[x]]

\* variant: the primary selector is recorded in the cache when it resolves
OnPrimarySuccess_Remember(c, k, t) == UpdateCache(c, k, k, t)

\* try { await waitFor; return locator; }: the cache is not touched
OnPrimarySuccess(c, k, t) == c

\* variant: a replayed entry gets a new timestamp
OnReplaySuccess_Touch(c, k, t) == [c EXCEPT ![k].timestamp = t]

\* try { await healedLocator...waitFor; return healedLocator; }: the entry
\* is not touched
OnReplaySuccess(c, k, t) == c

\* variant: saveCache without its try/catch
SaveCacheThrows_NoCatch(ok) == ~ok

\* saveCache(): catch (error) { console.warn(...) }, nothing is rethrown
SaveCacheThrows(ok) == FALSE

\* variant: saveCache writes nothing
SaveCache_Skip(f, c, ok) == f

\* saveCache(): writeFileSync inside try/catch; a failed write leaves the file
SaveCache(f, c, ok) == IF ok THEN FileOf(Serialize(c)) ELSE f

\* variant: healSelector lets the backend's exception through
HealSelectorCatch_Rethrow(op) == Thrown(op)

\* healSelector: catch (error) { console.error(...); return null; }
HealSelectorCatch(op) == None

\* variant: findElement asks for another repair when one came back empty
AfterHealFailed_Retry(healed) == "screenshot"

\* findElement after healSelector returned null or "": no loop, throw
AfterHealFailed(healed) == "done"

\* variant: clearCache leaves the file in place
Unlink_Keep(f) == f

\* if (fs.existsSync(this.cacheFile)) fs.unlinkSync(this.cacheFile)
Unlink(f) == IF f.exists THEN AbsentFile ELSE f

\* variant: entries are kept per selector and description
CacheKey_WithDescription(sel, desc) == sel \o <<desc>>

\* this.cache[selector]: the selector string alone is the key
CacheKey(sel, desc) == sel

\* variant: the flag is not consulted
AfterStart_IgnoreFlag(en) == "primary"

\* if (!this.enabled) return ...; otherwise go on to the primary waitFor
AfterStart(en) == IF ~en THEN "done" ELSE "primary"

\* variant: the disabled branch throws
DisabledReturn_Throw(s) == HealError(s)

\* return page.locator(selector) of the disabled branch
DisabledReturn(s) == Locator(s)

(* ------------------------------ actions ------------------------------- *)
InFlight(c) == pc[c] \notin {"idle", "done"}

\* findElement(page, selector, description) up to its first await
Start(c, sel, desc) ==
  /\ ~InFlight(c)
  /\ selector' = [selector EXCEPT ![c] = sel]
  /\ description' = [description EXCEPT ![c] = desc]
  /\ cand' = [cand EXCEPT ![c] = None]
  /\ log' = [log EXCEPT ![c] = <<>>]
  /\ pc' = [pc EXCEPT ![c] = AfterStart(enabled)]
  /\ result' = [result EXCEPT ![c] =
         IF AfterStart(enabled) = "done" THEN DisabledReturn(sel) ELSE NoResult]
  /\ UNCHANGED <<instance, otherVars, enabled, cache, file, envVars>>

\* await locator.first().waitFor({ timeout: 2000 }) on the original selector,
\* and on failure the cache check that follows in the catch block
PrimaryWait(c) ==
  /\ pc[c] = "primary"
  /\ LET sel == selector[c]
         key == CacheKey(sel, description[c])
         ok == Resolves(sel)
         next == AfterPrimary(ok, cache, key, now)
     IN  /\ pc' = [pc EXCEPT ![c] = next]
         /\ log' = [log EXCEPT ![c] =
                @ \o <<Ev("waitFor", sel, ok)>>
                  \o (IF next = "done" THEN <<>> ELSE <<Ev("cache_read", key, Has(cache, key))>>)
                  \o (IF next = "screenshot" THEN <<Ev("heal", sel, TRUE)>> ELSE <<>>)]
         /\ result' = [result EXCEPT ![c] = IF next = "done" THEN Locator(sel) ELSE NoResult]
         /\ cand' = [cand EXCEPT ![c] = IF next = "replay" THEN cache[key].healedSelector ELSE None]
         /\ cache' = IF ok THEN OnPrimarySuccess(cache, key, now) ELSE cache
  /\ UNCHANGED <<instance, otherVars, enabled, file, selector, description, envVars>>

\* await healedLocator.first().waitFor({ timeout: 2000 }) on the cached selector
ReplayWait(c) ==
  /\ pc[c] = "replay"
  /\ LET sel == selector[c]
         key == CacheKey(sel, description[c])
         ok == Resolves(cand[c])
         next == AfterReplay(ok)
     IN  /\ pc' = [pc EXCEPT ![c] = next]
         /\ log' = [log EXCEPT ![c] =
                @ \o <<Ev("waitFor", cand[c], ok)>>
                  \o (IF ok THEN <<>> ELSE <<Ev("cache_delete", key, TRUE)>>)
                  \o (IF next = "screenshot" THEN <<Ev("heal", sel, TRUE)>> ELSE <<>>)]
         /\ cache' = IF ok THEN OnReplaySuccess(cache, key, now) ELSE DeleteStale(cache, key)
         /\ result' = [result EXCEPT ![c] =
                IF next # "done" THEN NoResult
                ELSE IF ok THEN Locator(cand[c]) ELSE HealError(sel)]
         /\ cand' = [cand EXCEPT ![c] = IF next = "done" THEN @ ELSE None]
  /\ UNCHANGED <<instance, otherVars, enabled, file, selector, description, envVars>>

\* healSelector delivered the falsy value `healed` after event ev:
\* throw new Error(`Could not find or heal selector: ${selector}`)
FailHealing(c, ev, healed) ==
  /\ LET next == IF IsThrown(healed) THEN "done" ELSE AfterHealFailed(healed)
     IN  /\ pc' = [pc EXCEPT ![c] = next]
         /\ log' = [log EXCEPT ![c] =
                @ \o <<ev>>
                  \o (IF next = "screenshot" THEN <<Ev("heal", selector[c], TRUE)>> ELSE <<>>)]
         /\ result' = [result EXCEPT ![c] =
                IF IsThrown(healed) THEN RawException
                ELSE IF next = "done" THEN HealError(selector[c])
                ELSE NoResult]
  /\ UNCHANGED <<instance, otherVars, enabled, cache, file, selector, description, cand, envVars>>

\* await page.screenshot({ fullPage: false })
Screenshot(c, ok) ==
  /\ pc[c] = "screenshot"
  /\ IF ok
       THEN /\ pc' = [pc EXCEPT ![c] = "evaluate"]
            /\ log' = [log EXCEPT ![c] = @ \o <<Ev("screenshot", None, TRUE)>>]
            /\ UNCHANGED <<instance, otherVars, enabled, cache, file, selector, description,
                           cand, result, envVars>>
       ELSE FailHealing(c, Ev("screenshot", None, FALSE), HealSelectorCatch("screenshot"))

\* await page.evaluate(...): the inventory of interactive elements
Evaluate(c, ok) ==
  /\ pc[c] = "evaluate"
  /\ IF ok
       THEN /\ pc' = [pc EXCEPT ![c] = "ask"]
            /\ log' = [log EXCEPT ![c] = @ \o <<Ev("evaluate", None, TRUE)>>]
            /\ UNCHANGED <<instance, otherVars, enabled, cache, file, selector, description,
                           cand, result, envVars>>
       ELSE FailHealing(c, Ev("evaluate", None, FALSE), HealSelectorCatch("evaluate"))

\* await aiClient.askWithImage(...), then the cleaning of the response
AskWithImage(c, ok, response) ==
  /\ pc[c] = "ask"
  /\ IF ok
       THEN /\ pc' = [pc EXCEPT ![c] = "validate"]
            /\ cand' = [cand EXCEPT ![c] = CleanResponse(response)]
            /\ log' = [log EXCEPT ![c] = @ \o <<Ev("ask", <<description[c]>>, TRUE)>>]
            /\ UNCHANGED <<instance, otherVars, enabled, cache, file, selector, description,
                           result, envVars>>
       ELSE FailHealing(c, Ev("ask", <<description[c]>>, FALSE), HealSelectorCatch("ask"))

\* await page.locator(selector).first().waitFor({ timeout: 2000 }) on the
\* candidate, healSelector's return, and findElement's cache update
Validate(c, writeOk) ==
  /\ pc[c] = "validate"
  /\ LET sel == selector[c]
         key == CacheKey(sel, description[c])
         valid == Resolves(cand[c])
         healed == HealSelectorReturn(cand[c], valid)
     IN  IF Truthy(healed)
           THEN /\ cache' = UpdateCache(cache, key, healed, now)
                /\ file' = SaveCache(file, cache', writeOk)
                /\ pc' = [pc EXCEPT ![c] = "done"]
                /\ log' = [log EXCEPT ![c] =
                      @ \o <<Ev("waitFor", cand[c], valid),
                             Ev("cache_write", key, TRUE),
                             Ev("file_write", key, writeOk)>>]
                /\ result' = [result EXCEPT ![c] =
                      IF SaveCacheThrows(writeOk) THEN RawException ELSE Locator(healed)]
                /\ writeOk \/ writeFailures < MaxWriteFailures
                /\ writeFailures' = IF writeOk THEN writeFailures ELSE writeFailures + 1
                /\ UNCHANGED <<instance, otherVars, enabled, selector, description, cand, live, now>>
           ELSE /\ writeOk
                /\ FailHealing(c, Ev("waitFor", cand[c], valid), healed)

\* one step of call c
CallStep(c) ==
  \/ \E sel \in Primaries, desc \in Descriptions : Start(c, sel, desc)
  \/ PrimaryWait(c)
  \/ ReplayWait(c)
  \/ \E ok \in BOOLEAN : Screenshot(c, ok)
  \/ \E ok \in BOOLEAN : Evaluate(c, ok)
  \/ \E ok \in BOOLEAN, r \in AIResponses : AskWithImage(c, ok, r)
  \/ \E w \in BOOLEAN : Validate(c, w)

\* clearCache(): called between resolutions
ClearCache ==
  /\ \A c \in Calls : ~InFlight(c)
  /\ cache' = EmptyCache
  /\ file' = Unlink(file)
  /\ UNCHANGED <<instance, otherVars, enabled, callVars, envVars>>

\* the application under test adds or removes an element
PageChange(s) ==
  /\ live' = IF s \in live THEN live \ {s} ELSE live \cup {s}
  /\ UNCHANGED <<instance, otherVars, enabled, cache, file, now, writeFailures, callVars>>

\* wall-clock time passes
Tick(d) ==
  /\ now + d <= MaxMinutes * Minute
  /\ now' = now + d
  /\ UNCHANGED <<instance, otherVars, enabled, cache, file, live, writeFailures, callVars>>

\* new SelfHealingSelector() in a later process, on the same cache file
Construct(e) ==
  /\ instance = "first"
  /\ pc[1] = "done" /\ pc[2] = "idle"
  /\ instance' = IF LoadCacheThrows(file) THEN "failed" ELSE "later"
  /\ enabled' = EnabledFromEnv(e)
  /\ cache' = LoadCache(file)
  /\ UNCHANGED <<file, envVars, callVars, otherVars>>

\* the cache file is damaged or made unreadable behind the store's back
CorruptFile ==
  /\ instance = "first"
  /\ pc[1] = "done" /\ pc[2] = "idle"
  /\ file # FileOf(Unreadable)
  /\ file' = FileOf(Unreadable)
  /\ UNCHANGED <<instance, otherVars, enabled, cache, envVars, callVars>>

\* one resolution at a time on the store instance
Next ==
  \/ CallStep(1)
  \/ ClearCache
  \/ \E s \in PageSelectors : PageChange(s)
  \/ \E d \in TickSteps : Tick(d)

Spec == Init /\ [][Next]_vars

\* every await of a call in flight settles: the waitFor calls time out after
\* 2000 ms, the screenshot, the inventory and the AI call return or fail
SpecLive == Spec /\ WF_vars(CallStep(1))

(* ------- two calls interleaving on the shared store instance --------- *)
\* e.g. Promise.all of two smartLocator calls: either call may take the
\* next step whenever it is suspended at an await
NextConc ==
  \/ CallStep(1)
  \/ CallStep(2)

SpecConc == Init /\ [][NextConc]_vars

(* ---- two calls in sequence, with or without a restart between them ---- *)
\* the first call, on the first store
FirstCall == pc[1] # "done" /\ CallStep(1)
\* the call that follows it, on whichever store is then in use
SecondCall == pc[1] = "done" /\ pc[2] # "done" /\ instance # "failed" /\ CallStep(2)
\* the page and the clock move between the two calls
BetweenCalls ==
  /\ pc[1] = "done" /\ pc[2] = "idle"
  /\ \/ \E s \in PageSelectors : PageChange(s)
     \/ \E d \in TickSteps : Tick(d)

NextSeq ==
  \/ FirstCall
  \/ SecondCall
  \/ \E e \in EnvValues : Construct(e)
  \/ CorruptFile
  \/ BetweenCalls

SpecSeq == Init /\ [][NextSeq]_vars

(* ------------------------ OTP extraction ------------------------------ *)
selfHealingVars == <<enabled, cache, file, envVars, callVars, instance, worker>>

\* extractOTP(emailContent, subject) up to its first await
ExtractOTP(content, subj) ==
  /\ otpPc \in {"idle", "done"}
  /\ emailContent' = content
  /\ subject' = subj
  /\ aiAnswer' = None
  /\ aiCalls' = 0
  /\ LET stage == FirstStage(enableAI, content, subj)
     IN  /\ otpPc' = IF stage = "ai" THEN "ai" ELSE "done"
         /\ otpResult' = IF stage = "ai" THEN NoOtp ELSE ExtractWithRegex(content, subj)
  /\ UNCHANGED <<enableAI, selfHealingVars, pollVars>>

\* await aiClient.ask(...) in extractWithAI, the check of the trimmed answer,
\* and extractOTP's fallback to extractWithRegex when extractWithAI threw
AskForOTP(ok, response) ==
  /\ otpPc = "ai"
  /\ aiCalls' = aiCalls + 1
  /\ aiAnswer' = IF ok THEN response ELSE Thrown("ask")
  /\ otpResult' = IF UseAICode(ok, Trim(response)) THEN OtpCode(Trim(response))
                  ELSE ExtractWithRegex(emailContent, subject)
  /\ otpPc' = "done"
  /\ UNCHANGED <<enableAI, emailContent, subject, selfHealingVars, pollVars>>

\* an extractor as the OTPHelper constructor makes it, no store in use
InitOtp ==
  /\ enableAI \in BOOLEAN
  /\ OtpIdle
  /\ PollIdle
  /\ worker = NoWorker
  /\ instance = "first"
  /\ enabled = TRUE
  /\ file = AbsentFile
  /\ cache = LoadCache(file)
  /\ live = {}
  /\ now = 0
  /\ writeFailures = 0
  /\ pc = [c \in Calls |-> "idle"]
  /\ selector = [c \in Calls |-> None]
  /\ description = [c \in Calls |-> NoDescription]
  /\ cand = [c \in Calls |-> None]
  /\ log = [c \in Calls |-> <<>>]
  /\ result = [c \in Calls |-> NoResult]

NextOtp ==
  \/ \E content \in Emails, subj \in Subjects : ExtractOTP(content, subj)
  \/ \E ok \in BOOLEAN, response \in OtpResponses : AskForOTP(ok, response)

SpecOtp == InitOtp /\ [][NextOtp]_vars

(* --------------------------- e-mail polling --------------------------- *)
\* pollForEmail(options) up to the first test of the loop condition
PollForEmail(o) ==
  /\ pollPc \in {"idle", "done"}
  /\ pollOptions' = o
  /\ elapsed' = 0
  /\ pollPc' = "loop"
  /\ pollResult' = NoPollResult
  /\ UNCHANGED <<inbox, selfHealingVars, otpVars>>

\* the loop condition holds: await this.fetchAllEmails(1), then the filters
FetchAllEmails(ok) ==
  /\ pollPc = "loop"
  /\ ~TimedOut(elapsed, pollOptions)
  /\ IF ~ok
       THEN pollPc' = "done" /\ pollResult' = FetchError
       ELSE IF inbox # <<>> /\ PassesFilters(inbox[1], pollOptions)
         THEN pollPc' = "done" /\ pollResult' = PollReturn(inbox[1])
         ELSE pollPc' = "sleep" /\ pollResult' = pollResult
  /\ UNCHANGED <<pollOptions, elapsed, inbox, selfHealingVars, otpVars>>

\* the loop condition fails: throw new Error(`No email received ...`)
PollTimeout ==
  /\ pollPc = "loop"
  /\ TimedOut(elapsed, pollOptions)
  /\ pollPc' = "done"
  /\ pollResult' = PollTimeoutError
  /\ UNCHANGED <<pollOptions, elapsed, inbox, selfHealingVars, otpVars>>

\* await this.sleep(pollIntervalMs)
Sleep ==
  /\ pollPc = "sleep"
  /\ elapsed' = elapsed + OrDefault(pollOptions.pollIntervalMs, DEFAULT_POLL_INTERVAL)
  /\ pollPc' = "loop"
  /\ UNCHANGED <<pollOptions, inbox, pollResult, selfHealingVars, otpVars>>

\* a new e-mail becomes the latest one of the inbox
MailArrives(m) ==
  /\ inbox # <<m>>
  /\ inbox' = <<m>>
  /\ UNCHANGED <<pollPc, pollOptions, elapsed, pollResult, selfHealingVars, otpVars>>

\* one step of the polling loop
PollStep ==
  \/ \E ok \in BOOLEAN : FetchAllEmails(ok)
  \/ PollTimeout
  \/ Sleep

\* a provider as constructed, no store and no extractor in use
InitPoll ==
  /\ PollIdle
  /\ enableAI = TRUE
  /\ OtpIdle
  /\ worker = NoWorker
  /\ instance = "first"
  /\ enabled = TRUE
  /\ file = AbsentFile
  /\ cache = LoadCache(file)
  /\ live = {}
  /\ now = 0
  /\ writeFailures = 0
  /\ pc = [c \in Calls |-> "idle"]
  /\ selector = [c \in Calls |-> None]
  /\ description = [c \in Calls |-> NoDescription]
  /\ cand = [c \in Calls |-> None]
  /\ log = [c \in Calls |-> <<>>]
  /\ result = [c \in Calls |-> NoResult]

NextPoll ==
  \/ \E o \in PollOptions : PollForEmail(o)
  \/ PollStep
  \/ \E m \in Mails : MailArrives(m)

\* every fetch and every sleep of a polling loop in progress settles
SpecPoll == InitPoll /\ [][NextPoll]_vars /\ WF_vars(PollStep)

(* ------------- a second worker process on the same file --------------- *)
\* new SelfHealingSelector() in the other worker process
WorkerConstruct ==
  /\ ~worker.alive
  /\ worker' = [alive |-> TRUE, cache |-> LoadCache(file)]
  /\ UNCHANGED <<enabled, cache, file, envVars, callVars, instance, otpVars, pollVars>>

\* findElement(page, k) in the other worker process ends in a repair of k
\* to the validated z: its map is updated and written to the file
WorkerHeal(k, z) ==
  /\ worker.alive
  /\ ~Resolves(k)
  /\ Resolves(z)
  /\ Has(worker.cache, k) =>
        \/ ~CacheFresh(worker.cache[k], now)
        \/ ~Resolves(worker.cache[k].healedSelector)
  /\ worker' = [worker EXCEPT !.cache = UpdateCache(@, k, z, now)]
  /\ file' = SaveCache(file, worker'.cache, TRUE)
  /\ UNCHANGED <<enabled, cache, envVars, callVars, instance, otpVars, pollVars>>

NextWorkers ==
  \/ CallStep(1)
  \/ WorkerConstruct
  \/ \E z \in PageSelectors \ {SelB} : WorkerHeal(SelB, z)

SpecWorkers == Init /\ [][NextWorkers]_vars

(* ------------------------- reading the log ---------------------------- *)
HasEv(L, e) == \E i \in DOMAIN L : L[i] = e
HasOp(L, op) == \E i \in DOMAIN L : L[i].op = op
\* no repair request, no AI call, no cache access recorded
NoRepairNoCache(L) ==
  \A i \in DOMAIN L :
    L[i].op \notin {"heal", "screenshot", "evaluate", "ask",
                    "cache_read", "cache_delete", "cache_write", "file_write"}
\* call c took a step
Stepped(c) == pc'[c] # pc[c] \/ log'[c] # log[c]

(* ------------------------------ claims -------------------------------- *)

C2_HappyPath ==
  [][\A c \in Calls :
       (enabled /\ pc[c] = "primary" /\ Resolves(selector[c]) /\ Stepped(c))
         => /\ pc'[c] = "done"
            /\ result'[c] = Locator(selector[c])
            /\ log'[c] = <<Ev("waitFor", selector[c], TRUE)>>
            /\ cache' = cache /\ file' = file]_vars

\* the primary selector resolved while the cache held a fresh entry for it
C2_Witness ==
  /\ enabled
  /\ pc[1] = "done"
  /\ log[1] = <<Ev("waitFor", selector[1], TRUE)>>
  /\ Has(cache, selector[1])
  /\ CacheFresh(cache[selector[1]], now)
  /\ result[1] = Locator(selector[1])

\* C3: when the primary selector X fails, the cache holds an unexpired entry
\* X -> Y and Y resolves, the call replays Y, returns the locator for Y and
\* makes no repair request and no AI call.
C3_CacheHitFastPath ==
  [][\A c \in Calls :
       /\ ( /\ pc[c] = "primary" /\ ~Resolves(selector[c]) /\ Stepped(c)
            /\ Has(cache, selector[c])
            /\ now - cache[selector[c]].timestamp < TTL )
          => (pc'[c] = "replay" /\ cand'[c] = cache[selector[c]].healedSelector)
       /\ (pc[c] = "replay" /\ Resolves(cand[c]) /\ Stepped(c))
          => /\ pc'[c] = "done"
             /\ result'[c] = Locator(cand[c])
             /\ ~HasOp(log'[c], "heal") /\ ~HasOp(log'[c], "ask")
             /\ cache' = cache]_vars

\* a call returned the cached selector after its primary selector failed
C3_Witness ==
  /\ pc[1] = "done"
  /\ Len(log[1]) = 3
  /\ log[1][1] = Ev("waitFor", selector[1], FALSE)
  /\ log[1][2] = Ev("cache_read", selector[1], TRUE)
  /\ log[1][3].op = "waitFor" /\ log[1][3].ok
  /\ result[1] = Locator(log[1][3].arg)
  /\ result[1].selector # selector[1]

\* the records the cache file holds; none when the file is absent
FileEntries(f) == IF f.exists THEN f.data ELSE {}
\* the AI answered and the waitFor on its candidate then failed
CandidateFailed(L) ==
  \E i, j \in DOMAIN L :
    i < j /\ L[i].op = "ask" /\ L[i].ok /\ L[j].op = "waitFor" /\ ~L[j].ok

\* C4: when the primary selector X fails and the replay of an unexpired
\* entry X -> Y fails too, the call does not fail there: it deletes the entry
\* for X and then requests a repair; and when the repair candidate Z of such
\* a call validates, the cache holds X -> Z afterwards and the locator for Z
\* is returned.
C4_StaleEntryRepaired ==
  [][\A c \in Calls :
       /\ (pc[c] = "replay" /\ ~Resolves(cand[c]) /\ Stepped(c))
          => /\ pc'[c] = "screenshot"
             /\ result'[c] = NoResult
             /\ ~Has(cache', selector[c])
             /\ log'[c] = log[c] \o <<Ev("waitFor", cand[c], FALSE),
                                      Ev("cache_delete", selector[c], TRUE),
                                      Ev("heal", selector[c], TRUE)>>
       /\ ( /\ pc[c] = "validate" /\ HasOp(log[c], "cache_delete")
            /\ Resolves(cand[c]) /\ Stepped(c) )
          => /\ pc'[c] = "done"
             /\ Has(cache', selector[c])
             /\ cache'[selector[c]].healedSelector = cand[c]
             /\ result'[c] = Locator(cand[c])]_vars

\* a stale entry X -> Y was deleted and replaced by a validated X -> Z
C4_Witness ==
  /\ pc[1] = "done"
  /\ Len(log[1]) > 3
  /\ log[1][3] = Ev("waitFor", SelB, FALSE)
  /\ HasOp(log[1], "cache_delete")
  /\ HasOp(log[1], "cache_write")
  /\ result[1] = Locator(SelC)
  /\ Has(cache, selector[1])
  /\ cache[selector[1]].healedSelector = SelC

C6_FileMatchesCache ==
  ((\A c \in Calls : ~InFlight(c)) /\ writeFailures = 0)
    => FileEntries(file) = Serialize(cache)

C8_DisabledIsolation ==
  [][\A c \in Calls :
       (~enabled /\ (Stepped(c) \/ result'[c] # result[c]))
         => /\ NoRepairNoCache(log'[c])
            /\ cache' = cache
            /\ file' = file]_vars

\* a disabled call ended without touching the entry cached for its selector
C8_Witness ==
  /\ ~enabled
  /\ pc[1] = "done"
  /\ log[1] = <<>>
  /\ Has(cache, selector[1])
  /\ FileEntries(file) # {}

\* C9: when the primary selector fails and the map holds an entry for it,
\* the entry is replayed only if its age is below the one-hour TTL; an entry
\* one hour old or older is left alone and the call goes straight to repair.
C9_TtlExpiry ==
  [][\A c \in Calls :
       ( /\ pc[c] = "primary" /\ ~Resolves(selector[c]) /\ Stepped(c)
         /\ Has(cache, selector[c]) )
         => IF now - cache[selector[c]].timestamp < TTL
              THEN pc'[c] = "replay"
              ELSE /\ pc'[c] = "screenshot"
                   /\ cand'[c] = None
                   /\ cache' = cache
                   /\ log'[c] = <<Ev("waitFor", selector[c], FALSE),
                                  Ev("cache_read", selector[c], TRUE),
                                  Ev("heal", selector[c], TRUE)>>]_vars

\* an entry 61 minutes old was skipped and repair was requested
C9_Witness ==
  /\ pc[1] = "screenshot"
  /\ Has(cache, selector[1])
  /\ now - cache[selector[1]].timestamp = 61 * Minute
  /\ log[1][2] = Ev("cache_read", selector[1], TRUE)
  /\ log[1][3] = Ev("heal", selector[1], TRUE)

\* C10: every entry that appears or changes in the cache map is written by a
\* call for that key whose repair candidate - the healed selector of the new
\* entry - resolved against the live document in the step that wrote it.
C10_CacheProvenance ==
  [][\A k \in DOMAIN cache' :
       (~Has(cache, k) \/ cache'[k] # cache[k])
         => \E c \in Calls :
              /\ selector[c] = k
              /\ pc[c] = "validate"
              /\ cand[c] = cache'[k].healedSelector
              /\ Resolves(cache'[k].healedSelector)
              /\ HasEv(log'[c], Ev("waitFor", cache'[k].healedSelector, TRUE))]_vars

\* an entry written during the run is in the map
C10_Witness ==
  /\ pc[1] = "done"
  /\ HasOp(log[1], "cache_write")
  /\ Has(cache, selector[1])
  /\ cache[selector[1]].healedSelector = result[1].selector
  /\ cache[selector[1]].timestamp > 0

\* number of events of kind op in a call's log
CountOp(L, op) == Cardinality({i \in DOMAIN L : L[i].op = op})
\* position of the first event of kind op (0 when there is none)
FirstOp(L, op) ==
  IF HasOp(L, op) THEN CHOOSE i \in DOMAIN L : L[i].op = op /\ \A j \in 1..(i - 1) : L[j].op # op
  ELSE 0

\* C11: a call requests repair at most once and reaches the AI backend at
\* most once (no retry); and every call of the enabled engine that ends in
\* the "Could not find or heal" error made exactly one repair request
\* before it threw.
C11_OneRepairAttempt ==
  \A c \in Calls :
    /\ CountOp(log[c], "heal") <= 1
    /\ CountOp(log[c], "ask") <= 1
    /\ (enabled /\ pc[c] = "done" /\ result[c].kind = "error")
         => CountOp(log[c], "heal") = 1

\* a call threw after one repair request whose one AI call gave a bad candidate
C11_Witness ==
  /\ enabled
  /\ pc[1] = "done"
  /\ result[1] = HealError(selector[1])
  /\ CountOp(log[1], "heal") = 1
  /\ CountOp(log[1], "ask") = 1
  /\ CandidateFailed(log[1])

\* C12: the steps of a call run in the order primary, cache, repair,
\* validation.  Repair is requested only in the step in which the primary
\* lookup failed with no unexpired entry in the cache, or in the step in
\* which the replay of the cached selector failed after the primary had
\* failed; the backend calls come after the repair request in the order
\* screenshot, inventory, AI, and the candidate is validated after the AI
\* answered.
C12_StepOrder ==
  /\ [][\A c \in Calls :
          (HasOp(log'[c], "heal") /\ ~HasOp(log[c], "heal"))
            => \/ /\ pc[c] = "primary"
                  /\ ~Resolves(selector[c])
                  /\ ~(Has(cache, selector[c]) /\ now - cache[selector[c]].timestamp < TTL)
               \/ /\ pc[c] = "replay"
                  /\ log[c][1] = Ev("waitFor", selector[c], FALSE)
                  /\ ~Resolves(cand[c])]_vars
  /\ [](\A c \in Calls : \A i \in DOMAIN log[c] :
          /\ log[c][i].op \in {"heal", "screenshot", "evaluate", "ask"}
               => /\ log[c][1] = Ev("waitFor", selector[c], FALSE)
                  /\ log[c][2].op = "cache_read"
                  /\ FirstOp(log[c], "heal") \in 3..i
          /\ log[c][i].op = "screenshot" => log[c][i - 1].op = "heal"
          /\ log[c][i].op = "evaluate" => log[c][i - 1] = Ev("screenshot", None, TRUE)
          /\ log[c][i].op = "ask" => log[c][i - 1] = Ev("evaluate", None, TRUE)
          /\ (log[c][i].op = "waitFor" /\ i > FirstOp(log[c], "heal") /\ HasOp(log[c], "heal"))
               => /\ log[c][i - 1].op = "ask" /\ log[c][i - 1].ok
                  /\ log[c][i].arg = cand[c])

\* the AI was asked after the primary failed and the replay of an unexpired
\* entry failed too
C12_Witness ==
  /\ pc[1] = "validate"
  /\ log[1][1] = Ev("waitFor", selector[1], FALSE)
  /\ log[1][2] = Ev("cache_read", selector[1], TRUE)
  /\ log[1][3].op = "waitFor" /\ ~log[1][3].ok
  /\ log[1][4].op = "cache_delete"
  /\ log[1][5].op = "heal"
  /\ log[1][8].op = "ask"

\* C13: when the screenshot, the inventory or the AI call fails inside a
\* repair, healSelector returns null and the caller sees the "Could not
\* find or heal" error for its selector, never the backend's exception; no
\* call of the enabled engine ends in any other kind of error.
C13_BackendFailuresAbsorbed ==
  \A c \in Calls :
    /\ result[c].kind \in {"none", "locator", "error"}
    /\ (pc[c] = "done" /\ \E i \in DOMAIN log[c] :
            log[c][i].op \in {"screenshot", "evaluate", "ask"} /\ ~log[c][i].ok)
         => result[c] = HealError(selector[c])

\* the AI call failed and the call ended in the healing error
C13_Witness ==
  /\ enabled
  /\ pc[1] = "done"
  /\ log[1][Len(log[1])].op = "ask"
  /\ ~log[1][Len(log[1])].ok
  /\ result[1] = HealError(selector[1])

\* C14 (as stated): the error of a call whose repair candidate was produced
\* and failed validation carries that candidate next to the original
\* selector.
C14_ErrorCarriesCandidate ==
  \A c \in Calls :
    (pc[c] = "done" /\ result[c].kind = "error")
      => /\ result[c].selector = selector[c]
         /\ CandidateFailed(log[c])
              => /\ "candidate" \in DOMAIN result[c]
                 /\ result[c].candidate = cand[c]

\* C14 (amended): the error findElement throws carries the original
\* selector and nothing else, also when a repair candidate was produced and
\* failed validation in that call.
C14_ErrorCarriesOnlySelector ==
  \A c \in Calls :
    (pc[c] = "done" /\ result[c].kind = "error")
      => /\ result[c].selector = selector[c]
         /\ DOMAIN result[c] = {"kind", "selector"}

\* a call threw after its candidate, different from the selector, failed
C14_Witness ==
  /\ pc[1] = "done"
  /\ result[1].kind = "error"
  /\ CandidateFailed(log[1])
  /\ cand[1] \notin {None, selector[1]}

\* call c healed x to z: the candidate validated and was put in the map
Healed(c, x, z) ==
  /\ pc[c] = "done"
  /\ selector[c] = x
  /\ result[c] = Locator(z)
  /\ HasEv(log[c], Ev("cache_write", x, TRUE))
\* the write of the cache file made by call c succeeded
Flushed(c) == HasEv(log[c], Ev("file_write", selector[c], TRUE))
\* the log of a call whose primary selector resolved
HappyLog(c) == <<Ev("waitFor", selector[c], TRUE)>>

\* C15: two calls for the same selector X made one after the other, on each
\* of which X resolves directly, both return the locator for X, and the
\* cache map and the cache file are what they were before the two calls: no
\* step of such a call changes either of them.
C15_HappyPathIdempotent ==
  /\ []((/\ pc[1] = "done" /\ pc[2] = "done"
          /\ selector[1] = selector[2]
          /\ log[1] = HappyLog(1) /\ log[2] = HappyLog(2))
         => /\ result[1] = Locator(selector[1])
            /\ result[2] = result[1]
            /\ (instance = "first" /\ Parses(file.data))
                 => file \in InitFiles /\ cache = LoadCache(file))
  /\ [][\A c \in Calls :
          (Stepped(c) /\ (pc[c] = "idle" \/ (pc[c] = "primary" /\ Resolves(selector[c]))))
            => cache' = cache /\ file' = file]_vars

\* both calls found X directly while the cache held an entry for X
C15_Witness ==
  /\ instance = "first"
  /\ pc[1] = "done" /\ pc[2] = "done"
  /\ selector[1] = selector[2]
  /\ log[1] = HappyLog(1) /\ log[2] = HappyLog(2)
  /\ result[2] = Locator(selector[2])
  /\ Has(cache, selector[1])

C17_ClearWipesEverything ==
  /\ [][((\A c \in Calls : ~Stepped(c)) /\ (cache' # cache \/ file' # file))
         => cache' = EmptyCache /\ FileEntries(file') = {}]_vars
  /\ [][\A c \in Calls :
          (pc[c] = "primary" /\ Stepped(c) /\ cache = EmptyCache /\ ~Resolves(selector[c]))
            => /\ pc'[c] = "screenshot"
               /\ log'[c] = <<Ev("waitFor", selector[c], FALSE),
                              Ev("cache_read", selector[c], FALSE),
                              Ev("heal", selector[c], TRUE)>>]_vars

\* a repair had been written to the map and the file, and both were cleared
C17_Witness ==
  /\ pc[1] = "done"
  /\ HasOp(log[1], "cache_write")
  /\ Flushed(1)
  /\ cache = EmptyCache
  /\ ~file.exists

\* C18: constructing a store never fails on the cache file: when the file
\* is absent, or cannot be read or parsed, the constructor returns and the
\* store starts with an empty map.
C18_ConstructionNeverFails ==
  [][(instance = "first" /\ instance' # "first")
       => /\ instance' = "later"
          /\ (~file.exists \/ ~Parses(file.data)) => cache' = EmptyCache]_vars

\* a store was constructed on an unreadable file after the first one had
\* saved a repair
C18_Witness ==
  /\ instance = "later"
  /\ file = FileOf(Unreadable)
  /\ cache = EmptyCache
  /\ Flushed(1)
  /\ pc[2] = "idle"

\* the text the regex patterns of the current extraction run over
OtpText == AllContent(emailContent, subject)
\* pattern number k has a match somewhere in the text
PatternMatches(k, text) == \E i \in 1..Len(text) : MatchesAt(OTPPatterns[k], text, i)
\* the AI answered with a text whose trimmed form is 4 to 10 characters, each
\* a letter, a digit or a dash
AIGaveValidCode ==
  /\ aiCalls = 1
  /\ ~IsThrown(aiAnswer)
  /\ Len(Trim(aiAnswer)) \in 4..10
  /\ \A i \in 1..Len(Trim(aiAnswer)) :
       Trim(aiAnswer)[i] \in Upper \cup Lower \cup Digits \cup {"-"}

C20_RegexFirst ==
  (otpPc = "done" /\ \E k \in DOMAIN OTPPatterns : PatternMatches(k, OtpText))
    => aiCalls = 0

\* keys of the entries the cache file holds
FileKeys(f) == {r[1] : r \in FileEntries(f)}

\* C21: the step in which a repair candidate Z for X validates sets the entry
\* for X to {Z, now, confidence 0.8}, whether or not X had an entry, leaves
\* every other entry alone, writes the map and the file once each - after a
\* successful write the file holds exactly the map - and returns the locator
\* for Z.
C21_RepairUpdatesCacheOnce ==
  [][\A c \in Calls :
       (pc[c] = "validate" /\ Stepped(c) /\ Resolves(cand[c]))
         => /\ cache' = [k \in DOMAIN cache \cup {selector[c]} |->
                          IF k = selector[c]
                            THEN [healedSelector |-> cand[c], timestamp |-> now,
                                  confidence |-> CONFIDENCE_TENTHS]
                            ELSE cache[k]]
            /\ CountOp(log'[c], "cache_write") = 1
            /\ CountOp(log'[c], "file_write") = 1
            /\ \/ file' = FileOf(Serialize(cache'))
               \/ file' = file /\ HasEv(log'[c], Ev("file_write", selector[c], FALSE))
            /\ pc'[c] = "done"
            /\ result'[c] = Locator(cand[c])]_vars

\* a repair overwrote an entry that had expired
C21_Witness ==
  /\ pc[1] = "done"
  /\ Len(log[1]) > 3
  /\ log[1][2] = Ev("cache_read", selector[1], TRUE)
  /\ log[1][3].op = "heal"
  /\ HasOp(log[1], "cache_write")
  /\ Flushed(1)
  /\ Has(cache, selector[1])
  /\ cache[selector[1]].timestamp >= TTL
  /\ result[1] = Locator(cache[selector[1]].healedSelector)

\* C22: when the answer of the AI is empty once whitespace and quotes are
\* stripped, the call ends in the healing error and writes neither the map
\* nor the file; no locator returned and no entry of the map ever has the
\* empty selector.
C22_EmptyResponseRejected ==
  /\ \A c \in Calls :
       /\ (pc[c] = "done" /\ HasOp(log[c], "ask") /\ cand[c] = <<>>)
            => /\ result[c] = HealError(selector[c])
               /\ ~HasOp(log[c], "cache_write")
               /\ ~HasOp(log[c], "file_write")
       /\ result[c].kind = "locator" => result[c].selector # <<>>
  /\ \A k \in DOMAIN cache : cache[k].healedSelector # <<>>

\* the AI answered with quotes around nothing and the call threw
C22_Witness ==
  /\ pc[1] = "done"
  /\ Len(log[1]) > 2
  /\ log[1][Len(log[1]) - 1].op = "ask"
  /\ log[1][Len(log[1]) - 1].ok
  /\ cand[1] = <<>>
  /\ result[1] = HealError(selector[1])

\* C25: the step in which the replay of a cached entry X -> Y succeeds
\* leaves that entry as it was - healed selector, confidence and timestamp -
\* and writes neither the map nor the file, so the age of the entry keeps
\* counting from the repair.
C25_CacheHitLeavesEntry ==
  [][\A c \in Calls :
       (pc[c] = "replay" /\ Stepped(c) /\ Resolves(cand[c]))
         => /\ Has(cache, selector[c]) /\ Has(cache', selector[c])
            /\ cache'[selector[c]].healedSelector = cache[selector[c]].healedSelector
            /\ cache'[selector[c]].confidence = cache[selector[c]].confidence
            /\ cache'[selector[c]].timestamp = cache[selector[c]].timestamp
            /\ file' = file
            /\ ~HasOp(log'[c], "cache_write")
            /\ ~HasOp(log'[c], "file_write")]_vars

\* an entry made thirty minutes earlier was replayed and still has its time
C25_Witness ==
  /\ pc[1] = "done"
  /\ Len(log[1]) = 3
  /\ log[1][3] = Ev("waitFor", result[1].selector, TRUE)
  /\ Has(cache, selector[1])
  /\ result[1] = Locator(cache[selector[1]].healedSelector)
  /\ now - cache[selector[1]].timestamp = 30 * Minute

\* C26: no step of a call for X creates, changes or deletes the entry of
\* any key other than X in the map.
C26_KeyIsolation ==
  [][\A c \in Calls :
       Stepped(c)
         => \A k \in (DOMAIN cache \cup DOMAIN cache') \ {selector'[c]} :
              Has(cache, k) /\ Has(cache', k) /\ cache'[k] = cache[k]]_vars

\* a call deleted and rewrote its own entry next to the entry of another key
C26_Witness ==
  /\ pc[1] = "done"
  /\ HasOp(log[1], "cache_delete")
  /\ HasOp(log[1], "cache_write")
  /\ selector[1] # SelB
  /\ Has(cache, SelB)
  /\ cache[SelB] = Entry(SelC, 0, CONFIDENCE_TENTHS)

\* C30: when the write of the cache file fails after a repair of X to Z
\* validated, the call still returns the locator for Z, the map holds X -> Z
\* and the file is left as it was; no call ever ends in the write error; and
\* an unexpired entry that only the map holds is replayed by a later call.
C30_FailedFlushTolerated ==
  /\ [][\A c \in Calls :
          (pc[c] = "validate" /\ Stepped(c)
             /\ HasEv(log'[c], Ev("file_write", selector[c], FALSE)))
            => /\ pc'[c] = "done"
               /\ result'[c] = Locator(cand[c])
               /\ Has(cache', selector[c])
               /\ cache'[selector[c]].healedSelector = cand[c]
               /\ file' = file]_vars
  /\ [][\A c \in Calls :
          (pc[c] = "primary" /\ Stepped(c) /\ ~Resolves(selector[c])
             /\ Has(cache, selector[c])
             /\ now - cache[selector[c]].timestamp < TTL
             /\ selector[c] \notin FileKeys(file))
            => /\ pc'[c] = "replay"
               /\ cand'[c] = cache[selector[c]].healedSelector]_vars
  /\ [](\A c \in Calls : result[c].kind # "exception")

\* an entry whose write to the file had failed was replayed by a later call
C30_Witness ==
  /\ writeFailures = 1
  /\ pc[1] = "done"
  /\ selector[1] \notin FileKeys(file)
  /\ Has(cache, selector[1])
  /\ log[1] = <<Ev("waitFor", selector[1], FALSE),
                Ev("cache_read", selector[1], TRUE),
                Ev("waitFor", cache[selector[1]].healedSelector, TRUE)>>
  /\ result[1] = Locator(cache[selector[1]].healedSelector)

\* C23: the description takes no part in lookup or caching.  The primary
\* lookup is made on the selector, every read, deletion and write of the
\* cache is made under the selector alone, every key of the map is a
\* selector, and the description shows up in the AI request only; so an
\* entry X -> Z written by a call with one description is replayed by a call
\* for X with another description.
C23_DescriptionNotInKey ==
  /\ [](/\ \A c \in Calls : \A i \in DOMAIN log[c] :
            /\ i = 1 => log[c][i].arg = selector[c]
            /\ log[c][i].op \in {"cache_read", "cache_delete", "cache_write", "file_write"}
                 => log[c][i].arg = selector[c]
            /\ log[c][i].op # "ask" => log[c][i].arg # <<description[c]>>
         /\ DOMAIN cache \subseteq PageSelectors)
  /\ [][(/\ instance = "first"
          /\ Healed(1, selector[2], result[1].selector)
          /\ description[2] # description[1]
          /\ pc[2] = "primary" /\ Stepped(2)
          /\ ~Resolves(selector[2])
          /\ now < TTL)
         => /\ pc'[2] = "replay"
            /\ cand'[2] = result[1].selector]_vars

\* a call with another description replayed what the first call had healed
C23_Witness ==
  /\ instance = "first"
  /\ Healed(1, selector[2], result[1].selector)
  /\ HasEv(log[1], Ev("ask", <<description[1]>>, TRUE))
  /\ description[2] # description[1]
  /\ pc[2] = "done"
  /\ result[2] = result[1]
  /\ log[2] = <<Ev("waitFor", selector[2], FALSE),
                Ev("cache_read", selector[2], TRUE),
                Ev("waitFor", result[2].selector, TRUE)>>

\* C27: a call does a bounded amount of work and ends.  It waits on the
\* document at most three times (primary, replay, validation), takes at most
\* one screenshot and one inventory and asks the AI at most once; and, its
\* awaits settling, every call in flight comes to an end, with a locator or
\* with the healing error.
C27_CallTerminates ==
  /\ [](\A c \in Calls :
          /\ CountOp(log[c], "waitFor") <= 3
          /\ CountOp(log[c], "screenshot") <= 1
          /\ CountOp(log[c], "evaluate") <= 1
          /\ CountOp(log[c], "ask") <= 1
          /\ pc[c] = "done" => result[c].kind \in {"locator", "error"})
  /\ \A c \in Calls : InFlight(c) ~> pc[c] = "done"

\* a call ended after three waits on the document and one AI call
C27_Witness ==
  /\ pc[1] = "done"
  /\ CountOp(log[1], "waitFor") = 3
  /\ CountOp(log[1], "ask") = 1
  /\ result[1].kind = "error"

\* C28: of two interleaving calls for X, the one whose replay of X -> Y
\* failed deletes nothing but that entry: an entry X -> Z that the other
\* call wrote meanwhile, after validating Z, stays in the map.
C28_DeleteOnlyFailedEntry ==
  [][\A c \in Calls :
       (/\ pc[c] = "replay" /\ Stepped(c) /\ ~Resolves(cand[c])
        /\ Has(cache, selector[c])
        /\ cache[selector[c]].healedSelector # cand[c])
         => /\ Has(cache', selector[c])
            /\ cache'[selector[c]] = cache[selector[c]]]_vars

\* the polling loop is at an await or at its loop condition
Polling == pollPc \in {"loop", "sleep"}

\* C24: pollForEmail ends, and ends in one of these ways: it returns the
\* latest e-mail, whose subject contains filterSubject and whose sender
\* contains filterFrom wherever these are given; or, the elapsed time having
\* reached maxWaitMs (30000 when not given), it throws the 'No email
\* received' error; or a fetch threw and its error passes through.  While no
\* fetch throws the first two are the only outcomes, and the loop is never
\* entered with the time limit more than one polling interval behind.
C24_PollingTerminatesAndFilters ==
  /\ [](pollPc = "done" =>
          \/ /\ pollResult.kind = "email"
             /\ pollOptions.filterSubject # <<>>
                  => Includes(pollResult.mail.subject, pollOptions.filterSubject)
             /\ pollOptions.filterFrom # <<>>
                  => Includes(pollResult.mail.from, pollOptions.filterFrom)
          \/ /\ pollResult.kind = "timeout"
             /\ elapsed >= (IF pollOptions.maxWaitMs = 0 THEN DEFAULT_MAX_WAIT
                             ELSE pollOptions.maxWaitMs)
          \/ pollResult.kind = "fetchError")
  /\ [](Polling =>
          elapsed < (IF pollOptions.maxWaitMs = 0 THEN DEFAULT_MAX_WAIT
                     ELSE pollOptions.maxWaitMs)
                    + (IF pollOptions.pollIntervalMs = 0 THEN DEFAULT_POLL_INTERVAL
                       ELSE pollOptions.pollIntervalMs))
  /\ (Polling ~> pollPc = "done")

\* the loop ran into its default time limit while the latest e-mail failed
\* the sender filter
C24_Witness ==
  /\ pollPc = "done"
  /\ pollResult = PollTimeoutError
  /\ pollOptions.maxWaitMs = 0
  /\ elapsed = DEFAULT_MAX_WAIT
  /\ pollOptions.filterFrom # <<>>
  /\ inbox # <<>>
  /\ ~Includes(inbox[1].from, pollOptions.filterFrom)

\* C29: a write of the cache file never drops the entry of a key the file
\* held before, so that after two stores in different processes have each
\* saved a repair, for different keys, the file holds both.
C29_FlushKeepsPersistedEntries ==
  [][FileKeys(file) \subseteq FileKeys(file')]_vars

=============================================================================
